---- MODULE Spec2Model ----
(***************************************************************************)
(* TextLayoutEngine of src/src/streamer.js: the measurer (#measure on the  *)
(* canvas context), the wrapper (#wrapText), the fitter (#fitText, one     *)
(* action per iteration of its while loop) and the layout finisher         *)
(* (calcLayout).                                                           *)
(*                                                                         *)
(* Numbers.  width and the measured widths are whole pixels.  height and   *)
(* maxFontSize are JavaScript floats: they are held as fixed-point numbers *)
(* counting steps of 1/FP pixel (height = 7 with FP = 2 is 3.5 px).        *)
(* minFontSize and fontSize are whole pixels (Math.floor results).         *)
(* A text is a sequence of one-character strings.                          *)
(***************************************************************************)
EXTENDS Integers, Sequences, FiniteSets

\* ---------------------------------------------------------------- bounds
MaxLen == 3        \* longest text drawn
MaxWidth == 4      \* widest box, px
MaxHeight == 4     \* highest box, px
MaxWrapArg == 3    \* largest maxWrap argument
FP == 2            \* fixed-point steps per pixel of a float
MaxIters == 4      \* iterations of the #fitText loop that are followed

\* The ellipsis character U+2026 (line 74), written in ASCII.
Ellipsis == "..."
Alphabet == {"a", "W", Ellipsis}

Texts == UNION {[1..n -> Alphabet] : n \in 0..MaxLen}
Widths == 0..MaxWidth
Heights == 0..(FP * MaxHeight)
MaxWraps == 0..MaxWrapArg

\* baselineRatio = 0.88, in hundredths.
BaselineRatio100 == 88

\* Math.floor(height / 0) is Infinity (or NaN for 0 / 0); the only use of
\* minFontSize is then `minFontSize <= maxFontSize`, which is false for both.
\* A whole number of pixels above every height stands for them.
Infinity == MaxHeight + 1

\* ------------------------------------------------------------- measurer
getFontFor(fontSize) == <<fontSize, "px sans-serif">>

\* The canvas context's font before the first assignment to it.
DefaultFont == <<10, "px sans-serif">>

\* Advance of a character in em: the rendered width is proportional to the
\* font size parsed from the context's current font.
CharEm(char) == IF char = "W" THEN 2 ELSE 1

RECURSIVE SumEm(_)
SumEm(text) == IF text = <<>> THEN 0 ELSE CharEm(Head(text)) + SumEm(Tail(text))

\* ctx.measureText(text).width under the context's current font.
measureText(font, text) == font[1] * SumEm(text)

\* A #measure that forgets to set the font and measures with the stale one.
measureStale(font, fontSize, text) ==
  [font |-> font, width |-> measureText(font, text)]

\* #measure: sets the context's font, then measures with it.
measure(font, fontSize, text) ==
  LET f == getFontFor(fontSize)
  IN [font |-> f, width |-> measureText(f, text)]

\* -------------------------------------------------------------- wrapper
EmptyLine == [text |-> <<>>, width |-> 0]

\* A test that compares the differential width of line 33 with the box.
lineOverflowsDiff(metrics, line, width) == metrics.width - line.width > width

\* The test of line 30: the line with the next character on it is too wide.
lineOverflows(metrics, line, width) == metrics.width > width

RECURSIVE wrapLoop(_, _, _, _, _, _, _)
wrapLoop(font, text, fontSize, width, pos, lines, line) ==
  IF pos > Len(text)
  THEN [font |-> font,
        lines |-> IF line.text # <<>> THEN Append(lines, line) ELSE lines]
  ELSE LET char == text[pos]
           metrics == measure(font, fontSize, Append(line.text, char))
       IN IF lineOverflows(metrics, line, width)
          THEN wrapLoop(metrics.font, text, fontSize, width, pos + 1,
                        Append(lines, line),
                        [text |-> <<char>>, width |-> metrics.width - line.width])
          ELSE wrapLoop(metrics.font, text, fontSize, width, pos + 1,
                        lines,
                        [text |-> Append(line.text, char), width |-> metrics.width])

\* #wrapText, from the context font `font`: the lines and the font left behind.
wrapText(font, text, fontSize, width) ==
  wrapLoop(font, text, fontSize, width, 1, <<>>, EmptyLine)

\* --------------------------------------------------------------- fitter
\* A lower bound rounded up.
initMinCeil(height, maxWrap) ==
  IF maxWrap = 0 THEN Infinity
  ELSE (height + FP * maxWrap - 1) \div (FP * maxWrap)

\* Math.floor(height / maxWrap), line 46.
initMin(height, maxWrap) ==
  IF maxWrap = 0 THEN Infinity ELSE height \div (FP * maxWrap)

\* The loop condition of line 48 (maxFontSize counts 1/FP px).
loopCond(minFontSize, maxFontSize) == minFontSize * FP <= maxFontSize

\* A midpoint rounded up.
midCeil(minFontSize, maxFontSize) ==
  (minFontSize * FP + maxFontSize + 2 * FP - 1) \div (2 * FP)

\* Math.floor((minFontSize + maxFontSize) / 2), line 49.
midFontSize(minFontSize, maxFontSize) ==
  (minFontSize * FP + maxFontSize) \div (2 * FP)

\* hasOverflow of lines 53-54.
fitOverflow(fontSize, numOfLines, height, maxWrap) ==
  numOfLines > maxWrap \/ fontSize * numOfLines * FP > height

\* A window test that waits for the window to be a single size.
windowEmpty(minFontSize, maxFontSize) == maxFontSize - minFontSize * FP <= 0

\* The window test of line 56.
windowClosed(minFontSize, maxFontSize) == maxFontSize - minFontSize * FP <= FP

\* One iteration of the while loop, lines 49-62.
fitIter(font, text, width, height, maxWrap, minFontSize, maxFontSize) ==
  LET fontSize == midFontSize(minFontSize, maxFontSize)
      w == wrapText(font, text, fontSize, width)
      hasOverflow == fitOverflow(fontSize, Len(w.lines), height, maxWrap)
      returns == windowClosed(minFontSize, maxFontSize)
  IN [font |-> w.font, fontSize |-> fontSize, lines |-> w.lines,
      returns |-> returns,
      min |-> IF ~returns /\ ~hasOverflow THEN fontSize ELSE minFontSize,
      max |-> IF ~returns /\ hasOverflow THEN (fontSize - 1) * FP ELSE maxFontSize]

\* #fitText run to its end.  kind is "return" (line 57), "undefined" (the loop
\* condition fails and the function falls off its end) or "diverges" (an
\* iteration leaves the window as it found it, so every later one does too).
RECURSIVE fitLoop(_, _, _, _, _, _, _)
fitLoop(font, text, width, height, maxWrap, minFontSize, maxFontSize) ==
  IF ~loopCond(minFontSize, maxFontSize)
  THEN [kind |-> "undefined", font |-> font, fontSize |-> 0, lines |-> <<>>]
  ELSE LET it == fitIter(font, text, width, height, maxWrap,
                         minFontSize, maxFontSize)
       IN IF it.returns
          THEN [kind |-> "return", font |-> it.font,
                fontSize |-> it.fontSize, lines |-> it.lines]
          ELSE IF it.min = minFontSize /\ it.max = maxFontSize
          THEN [kind |-> "diverges", font |-> it.font, fontSize |-> 0,
                lines |-> <<>>]
          ELSE fitLoop(it.font, text, width, height, maxWrap, it.min, it.max)

fitText(font, text, width, height, maxWrap) ==
  fitLoop(font, text, width, height, maxWrap,
          initMin(height, maxWrap), height)

\* ------------------------------------------------------ layout finisher
\* A finisher that keeps the overflowed lines.
keepOverflow(lines, maxWrap) == lines

\* A finisher that cuts the lines and forgets the ellipsis.
discardSilently(lines, maxWrap) ==
  IF Len(lines) > maxWrap THEN SubSeq(lines, 1, maxWrap) ELSE lines

\* Lines 71-75: discard the overflowed lines, ellipsis on the last one kept.
discardOverflow(lines, maxWrap) ==
  IF Len(lines) > maxWrap
  THEN [i \in 1..maxWrap |->
          IF i = maxWrap
          THEN [lines[i] EXCEPT !.text = Append(@, Ellipsis)]
          ELSE lines[i]]
  ELSE lines

\* A placement that forgets to halve the free width.
placeUnhalved(lines, fontSize, width, height) ==
  LET n == Len(lines)
      offsetY == 100 * (height - fontSize * n * FP)
  IN [k \in 1..n |->
        [text |-> lines[k].text, width |-> lines[k].width,
         x |-> 2 * (width - lines[k].width),
         y |-> offsetY + 2 * FP * fontSize * (100 * (k - 1) + BaselineRatio100)]]

\* Lines 78-83.  x counts half pixels; y counts 1/(200 * FP) px:
\*   x = (width - line.width) / 2
\*   y = (height - fontSize * n) / 2 + fontSize * (i + 0.88),   i from 0.
placeLines(lines, fontSize, width, height) ==
  LET n == Len(lines)
      offsetY == 100 * (height - fontSize * n * FP)
  IN [k \in 1..n |->
        [text |-> lines[k].text, width |-> lines[k].width,
         x |-> width - lines[k].width,
         y |-> offsetY + 2 * FP * fontSize * (100 * (k - 1) + BaselineRatio100)]]

\* Lines 69-88: what calcLayout makes of #fitText's fontSize and lines.
finish(fontSize, lines, width, height, maxWrap) ==
  [font |-> getFontFor(fontSize),
   lines |-> placeLines(discardOverflow(lines, maxWrap), fontSize, width, height)]

NoResult == [font |-> <<>>, lines |-> <<>>]

\* calcLayout run to its end from the context font `font`.  Destructuring the
\* undefined that #fitText returns (line 67) throws a TypeError.
calcLayout(font, text, width, height, maxWrap) ==
  LET fit == fitText(font, text, width, height, maxWrap)
  IN CASE fit.kind = "return" ->
            [outcome |-> "result",
             result |-> finish(fit.fontSize, fit.lines, width, height, maxWrap)]
       [] fit.kind = "undefined" ->
            [outcome |-> "TypeError", result |-> NoResult]
       [] OTHER -> [outcome |-> "diverges", result |-> NoResult]

\* ---------------------------------------------------------------- state
VARIABLES
  pc,            \* "idle", "fit" (in the loop of #fitText), "finish"
                 \* (#fitText returned), "done" (calcLayout returned or threw)
  text, width, height, maxWrap,   \* the arguments of the call
  minFontSize, maxFontSize,       \* the search window of #fitText
  fontSize, lines,                \* the last probe of #fitText and its wrap
  iters,                          \* iterations of the loop so far
  ctxFont,                        \* this.#ctx.font, kept across calls
  outcome,                        \* "none", "result", "TypeError"
  result                          \* the object calcLayout returned

vars == <<pc, text, width, height, maxWrap, minFontSize, maxFontSize,
          fontSize, lines, iters, ctxFont, outcome, result>>

\* The locals of a calcLayout call: everything of the engine but its context.
callVars == <<pc, text, width, height, maxWrap, minFontSize, maxFontSize,
              fontSize, lines, iters, outcome, result>>

\* MessageStreamer.#calcTextLayout and its single-entry cache.
VARIABLES
  calcTextLayoutCache,   \* this.#calcTextLayoutCache
  ctlArgs,               \* the arguments of the last #calcTextLayout call
  ctlOutcome,            \* "none", "cached", "computed", "threw"
  ctlSame,               \* the last call had the arguments of the one before
  ctlLayout              \* the layout the last call returned

cacheVars == <<calcTextLayoutCache, ctlArgs, ctlOutcome, ctlSame, ctlLayout>>

\* The empty object of line 271: every key is undefined and equals no
\* number and no string.
EmptyCache ==
  [set |-> FALSE, width |-> 0, height |-> 0, text |-> <<>>, result |-> NoResult]

NoArgs == [width |-> 0, height |-> 0, text |-> <<>>]

CacheInit ==
  /\ calcTextLayoutCache = EmptyCache
  /\ ctlArgs = NoArgs
  /\ ctlOutcome = "none"
  /\ ctlSame = FALSE
  /\ ctlLayout = NoResult

MaxStreams == 2      \* getModifiedUserMedia calls, each with its canvas stream
Streams == 1..MaxStreams

\* MessageStreamer.start / stop / getModifiedUserMedia and the render loops
\* of runLoop, one per canvas stream.
VARIABLES
  isStarted,     \* this.#isStarted
  hijacked,      \* navigator.mediaDevices.getUserMedia is getModifiedUserMedia
  disposers,     \* this.#disposers: the streams whose loop's stop is in it
  callPc,        \* per call: "idle", "plain", "awaitDevice", "awaitPlay",
                 \* "returned", "failed"
  sched,         \* per loop: "none", "timer" (setTimeout pending), "raf"
                 \* (requestAnimationFrame pending)
  threw,         \* per loop: its callback has thrown
  active         \* per stream: canvasStream.active

loopVars == <<isStarted, hijacked, disposers, callPc, sched, threw, active>>

LoopInit ==
  /\ isStarted = FALSE
  /\ hijacked = FALSE
  /\ disposers = <<>>
  /\ callPc = [c \in Streams |-> "idle"]
  /\ sched = [c \in Streams |-> "none"]
  /\ threw = [c \in Streams |-> FALSE]
  /\ active = [c \in Streams |-> FALSE]

\* MessageStreamer.#updateCanvas: the canvases, their videos and the cache.
VARIABLES
  updateCanvasCache,   \* this.#updateCanvasCache
  canvas,              \* per stream: the canvas element (dom) and its size
  video,               \* per stream: videoWidth and videoHeight
  updated              \* the stream whose #updateCanvas call has returned and
                       \* whose video has not changed size since, or 0

canvasVars == <<updateCanvasCache, canvas, video, updated>>

\* A canvas element is 300 x 150 until it is resized.
NoCanvas == [made |-> FALSE, width |-> 0, height |-> 0]
NewCanvas == [made |-> TRUE, width |-> 300, height |-> 150]

\* The sizes a captured video can have.
NoVideo == [videoWidth |-> 0, videoHeight |-> 0]
VideoSizes ==
  {[videoWidth |-> 640, videoHeight |-> 480],
   [videoWidth |-> 1280, videoHeight |-> 720]}

EmptyCanvasCache == [set |-> FALSE, videoWidth |-> 0, videoHeight |-> 0]

CanvasInit ==
  /\ updateCanvasCache = EmptyCanvasCache
  /\ canvas = [c \in Streams |-> NoCanvas]
  /\ video = [c \in Streams |-> NoVideo]
  /\ updated = 0

streamerVars == <<cacheVars, loopVars, canvasVars>>

Init ==
  /\ pc = "idle"
  /\ text = <<>> /\ width = 0 /\ height = 0 /\ maxWrap = 0
  /\ minFontSize = 0 /\ maxFontSize = 0
  /\ fontSize = 0 /\ lines = <<>>
  /\ iters = 0
  /\ ctxFont = DefaultFont
  /\ outcome = "none"
  /\ result = NoResult
  /\ CacheInit
  /\ LoopInit
  /\ CanvasInit

\* calcLayout(t, w, h, m) is entered, and #fitText with it: lines 46-47.
Call(t, w, h, m) ==
  /\ pc = "idle"
  /\ pc' = "fit"
  /\ text' = t /\ width' = w /\ height' = h /\ maxWrap' = m
  /\ minFontSize' = initMin(h, m)
  /\ maxFontSize' = h
  /\ fontSize' = 0 /\ lines' = <<>>
  /\ iters' = 0
  /\ outcome' = "none"
  /\ result' = NoResult
  /\ UNCHANGED ctxFont
  /\ UNCHANGED streamerVars

\* One iteration of the loop of #fitText.
FitStep ==
  /\ pc = "fit"
  /\ loopCond(minFontSize, maxFontSize)
  /\ iters < MaxIters
  /\ LET it == fitIter(ctxFont, text, width, height, maxWrap,
                       minFontSize, maxFontSize)
     IN /\ ctxFont' = it.font
        /\ fontSize' = it.fontSize
        /\ lines' = it.lines
        /\ minFontSize' = it.min
        /\ maxFontSize' = it.max
        /\ pc' = IF it.returns THEN "finish" ELSE "fit"
  /\ iters' = iters + 1
  /\ UNCHANGED <<text, width, height, maxWrap, outcome, result>>
  /\ UNCHANGED streamerVars

\* The loop condition fails: #fitText returns undefined and line 67 throws.
FitExit ==
  /\ pc = "fit"
  /\ ~loopCond(minFontSize, maxFontSize)
  /\ pc' = "done"
  /\ outcome' = "TypeError"
  /\ UNCHANGED <<text, width, height, maxWrap, minFontSize, maxFontSize,
                 fontSize, lines, iters, ctxFont, result>>
  /\ UNCHANGED streamerVars

\* Lines 69-88 of calcLayout.  `lines` keeps the wrap #fitText returned; the
\* array calcLayout cuts and places is result.lines.
Finish ==
  /\ pc = "finish"
  /\ pc' = "done"
  /\ outcome' = "result"
  /\ result' = finish(fontSize, lines, width, height, maxWrap)
  /\ UNCHANGED <<text, width, height, maxWrap, minFontSize, maxFontSize,
                 fontSize, lines, iters, ctxFont>>
  /\ UNCHANGED streamerVars

\* The caller has taken the result (or caught the error): the locals of the
\* call are gone and only the engine's field, the context with its font, stays.
Return ==
  /\ pc = "done"
  /\ pc' = "idle"
  /\ text' = <<>> /\ width' = 0 /\ height' = 0 /\ maxWrap' = 0
  /\ minFontSize' = 0 /\ maxFontSize' = 0
  /\ fontSize' = 0 /\ lines' = <<>>
  /\ iters' = 0
  /\ outcome' = "none"
  /\ result' = NoResult
  /\ UNCHANGED ctxFont
  /\ UNCHANGED streamerVars

\* Any caller, any arguments.
CallAny ==
  /\ pc = "idle"
  /\ \E t \in Texts, w \in Widths, h \in Heights, m \in MaxWraps :
        Call(t, w, h, m)

Next ==
  \/ CallAny
  \/ FitStep
  \/ FitExit
  \/ Finish
  \/ Return

allVars == <<vars, cacheVars, loopVars, canvasVars>>

Spec == Init /\ [][Next]_allVars

\* Fonts the context can hold.
CtxFonts == {DefaultFont} \cup {getFontFor(s) : s \in 0..MaxHeight}

TypeOK ==
  /\ pc \in {"idle", "fit", "finish", "done"}
  /\ Len(text) <= MaxLen /\ \A i \in 1..Len(text) : text[i] \in Alphabet
  /\ width \in Widths /\ height \in Heights
  /\ maxWrap \in MaxWraps
  /\ minFontSize \in 0..Infinity
  /\ maxFontSize \in (-FP)..(FP * MaxHeight)
  /\ fontSize \in 0..MaxHeight
  /\ iters \in 0..MaxIters
  /\ ctxFont \in CtxFonts
  /\ outcome \in {"none", "result", "TypeError"}


\* ------------------------------------------- MessageStreamer: text layout
MaxFrame == 5        \* largest video width and height, px
MaxFrameLen == 2     \* longest message text

\* The maxWrap that line 294 passes.
LayoutMaxWrap == 3

Whitespace == {" "}
FrameAlphabet == {"a"} \cup Whitespace
FrameTexts == UNION {[1..n -> FrameAlphabet] : n \in 0..MaxFrameLen}
\* No video yet (0), and two sizes that differ.
FrameSizes == {0, MaxFrame - 1, MaxFrame}

\* text.replace(/\s+/g, " "): every run of whitespace becomes one space.
RECURSIVE collapseSpaces(_, _)
collapseSpaces(t, inRun) ==
  IF t = <<>> THEN <<>>
  ELSE IF Head(t) \in Whitespace
       THEN (IF inRun THEN <<>> ELSE <<" ">>) \o collapseSpaces(Tail(t), TRUE)
       ELSE <<Head(t)>> \o collapseSpaces(Tail(t), FALSE)

\* String.prototype.trim.
RECURSIVE trim(_)
trim(t) ==
  IF t = <<>> THEN <<>>
  ELSE IF Head(t) \in Whitespace THEN trim(Tail(t))
  ELSE IF t[Len(t)] \in Whitespace THEN trim(SubSeq(t, 1, Len(t) - 1))
  ELSE t

\* compactText of line 289.
compactText(t) == trim(collapseSpaces(t, FALSE))

\* Lines 284-287.  width * 0.8 and height * 0.9 * 4 / 3 are 4w/5 and 6h/5.
paddedWidth(w, h) ==
  LET a == (4 * w) \div 5
      b == (6 * h) \div 5
  IN IF a <= b THEN a ELSE b
paddedHeight(h) == (4 * h) \div 5

\* Lines 298-303: the lines moved into the frame (x in half pixels, y in
\* 1/(200 * FP) px).
offsetLines(ls, w, h) ==
  [k \in 1..Len(ls) |->
     [ls[k] EXCEPT !.x = @ + (w - paddedWidth(w, h)),
                   !.y = @ + 100 * FP * (h - paddedHeight(h))]]

\* Lines 283-303: the layout #calcTextLayout computes when the cache misses,
\* from the context font `font`.
computeTextLayout(font, w, h, t) ==
  LET r == calcLayout(font, compactText(t), paddedWidth(w, h),
                      paddedHeight(h) * FP, LayoutMaxWrap)
  IN IF r.outcome = "result"
     THEN [outcome |-> "result",
           result |-> [font |-> r.result.font,
                       lines |-> offsetLines(r.result.lines, w, h)]]
     ELSE r

\* The context font that computation leaves.
fontAfterLayout(font, w, h, t) ==
  fitText(font, compactText(t), paddedWidth(w, h), paddedHeight(h) * FP,
          LayoutMaxWrap).font

\* A cache test that looks at the text alone.
cacheHitText(cache, w, h, t) == cache.set /\ cache.text = t

\* The test of lines 275-279.
cacheHit(cache, w, h, t) ==
  cache.set /\ cache.width = w /\ cache.height = h /\ cache.text = t

\* Fonts the context can hold between #calcTextLayout calls.
FrameFonts == {DefaultFont} \cup {getFontFor(n) : n \in 0..MaxFrame}

\* computeTextLayout and fontAfterLayout of every context font and every
\* argument, worked out once.
TextLayouts ==
  [f \in FrameFonts, w \in FrameSizes, h \in FrameSizes, t \in FrameTexts |->
     [layout |-> computeTextLayout(f, w, h, t),
      font |-> fontAfterLayout(f, w, h, t)]]

\* #calcTextLayout(w, h, t), lines 272-310.  A calcLayout that throws leaves
\* the cache as it was.
CalcTextLayout(w, h, t) ==
  /\ pc = "idle"
  /\ ctlArgs' = [width |-> w, height |-> h, text |-> t]
  /\ ctlSame' = (ctlOutcome # "none" /\ ctlArgs = [width |-> w, height |-> h, text |-> t])
  /\ IF cacheHit(calcTextLayoutCache, w, h, t)
     THEN /\ ctlOutcome' = "cached"
          /\ ctlLayout' = calcTextLayoutCache.result
          /\ UNCHANGED <<calcTextLayoutCache, ctxFont>>
     ELSE LET c == TextLayouts[ctxFont, w, h, t]
          IN /\ c.layout.outcome # "diverges"
             /\ ctxFont' = c.font
             /\ IF c.layout.outcome = "result"
                THEN /\ ctlOutcome' = "computed"
                     /\ ctlLayout' = c.layout.result
                     /\ calcTextLayoutCache' =
                          [set |-> TRUE, width |-> w, height |-> h, text |-> t,
                           result |-> c.layout.result]
                ELSE /\ ctlOutcome' = "threw"
                     /\ ctlLayout' = NoResult
                     /\ UNCHANGED calcTextLayoutCache
  /\ UNCHANGED <<callVars, loopVars, canvasVars>>

NextCache ==
  \E w \in FrameSizes, h \in FrameSizes, t \in FrameTexts : CalcTextLayout(w, h, t)

SpecCache == Init /\ [][NextCache]_allVars

\* ------------------------------------------------------------------------
\* MessageStreamer: start, stop, getModifiedUserMedia and the render loops.
\* A frame's drawing (the video image and the text) is modelled by its
\* outcome: #updateCanvas returns or throws.

\* start(): returns at once when started, else hijacks getUserMedia.
Start ==
  /\ ~isStarted
  /\ hijacked' = TRUE
  /\ isStarted' = TRUE
  /\ UNCHANGED <<disposers, callPc, sched, threw, active>>
  /\ UNCHANGED <<vars, cacheVars, canvasVars>>

\* The disposer runLoop returns: clearTimeout(timerId) and
\* cancelAnimationFrame(rafId) leave nothing of that loop pending.
disposeAll(ds, sc) ==
  [c \in Streams |-> IF \E i \in 1..Len(ds) : ds[i] = c THEN "none" ELSE sc[c]]

\* stop(): returns at once when not started, else restores getUserMedia,
\* calls every disposer and empties the list.
Stop ==
  /\ isStarted
  /\ hijacked' = FALSE
  /\ sched' = disposeAll(disposers, sched)
  /\ disposers' = <<>>
  /\ isStarted' = FALSE
  /\ UNCHANGED <<callPc, threw, active>>
  /\ UNCHANGED <<vars, cacheVars, canvasVars>>

\* getModifiedUserMedia(constraints) without video, or with a desktop
\* capture: the call is passed to the original getUserMedia.
GetUserMediaPlain(c) ==
  /\ hijacked
  /\ callPc[c] = "idle"
  /\ callPc' = [callPc EXCEPT ![c] = "plain"]
  /\ UNCHANGED <<isStarted, hijacked, disposers, sched, threw, active>>
  /\ UNCHANGED <<vars, cacheVars, canvasVars>>

\* getModifiedUserMedia(constraints) with video: up to the await of the
\* original getUserMedia.
GetUserMedia(c) ==
  /\ hijacked
  /\ callPc[c] = "idle"
  /\ callPc' = [callPc EXCEPT ![c] = "awaitDevice"]
  /\ UNCHANGED <<isStarted, hijacked, disposers, sched, threw, active>>
  /\ UNCHANGED <<vars, cacheVars, canvasVars>>

\* The original getUserMedia rejects: the catch logs and throws again.
DeviceRejects(c) ==
  /\ callPc[c] = "awaitDevice"
  /\ callPc' = [callPc EXCEPT ![c] = "failed"]
  /\ UNCHANGED <<isStarted, hijacked, disposers, sched, threw, active>>
  /\ UNCHANGED <<vars, cacheVars, canvasVars>>

\* The original getUserMedia resolves: #createVideo up to the await of
\* video.play(), the video having the size v.
DeviceResolves(c, v) ==
  /\ callPc[c] = "awaitDevice"
  /\ callPc' = [callPc EXCEPT ![c] = "awaitPlay"]
  /\ video' = [video EXCEPT ![c] = v]
  /\ UNCHANGED <<isStarted, hijacked, disposers, sched, threw, active>>
  /\ UNCHANGED <<updateCanvasCache, canvas, updated>>
  /\ UNCHANGED <<vars, cacheVars>>

\* video.play() settles (a rejection is caught and logged) and
\* #createCanvasStream runs: a new canvas, its stream, runLoop's first
\* setTimeout, and the loop's disposer pushed on this.#disposers.
PlaySettles(c) ==
  /\ callPc[c] = "awaitPlay"
  /\ canvas' = [canvas EXCEPT ![c] = NewCanvas]
  /\ active' = [active EXCEPT ![c] = TRUE]
  /\ sched' = [sched EXCEPT ![c] = "timer"]
  /\ disposers' = Append(disposers, c)
  /\ callPc' = [callPc EXCEPT ![c] = "returned"]
  /\ UNCHANGED <<isStarted, hijacked, threw>>
  /\ UNCHANGED <<updateCanvasCache, video, updated>>
  /\ UNCHANGED <<vars, cacheVars>>

\* #createCanvasStream throws: no 2d context or no captured stream.
CanvasFails(c) ==
  /\ callPc[c] = "awaitPlay"
  /\ callPc' = [callPc EXCEPT ![c] = "failed"]
  /\ UNCHANGED <<isStarted, hijacked, disposers, sched, threw, active>>
  /\ UNCHANGED <<vars, cacheVars, canvasVars>>

\* The page stops the tracks of a canvas stream: canvasStream.active is false.
StreamEnds(c) ==
  /\ active[c]
  /\ active' = [active EXCEPT ![c] = FALSE]
  /\ UNCHANGED <<isStarted, hijacked, disposers, callPc, sched, threw>>
  /\ UNCHANGED <<vars, cacheVars, canvasVars>>

\* The camera changes the size of its video.
VideoResizes(c, v) ==
  /\ canvas[c].made
  /\ video[c] # v
  /\ video' = [video EXCEPT ![c] = v]
  /\ updated' = IF updated = c THEN 0 ELSE updated
  /\ UNCHANGED <<updateCanvasCache, canvas>>
  /\ UNCHANGED <<vars, cacheVars, loopVars>>

\* #updateCanvas, the resize test on the cache shared by all canvases.
needsResize(cache, v) ==
  \/ ~cache.set
  \/ cache.videoWidth # v.videoWidth
  \/ cache.videoHeight # v.videoHeight

\* #updateCanvas, the canvas after the resize block.
resizedCanvas(cache, dom, v) ==
  IF needsResize(cache, v)
    THEN [made |-> TRUE, width |-> v.videoWidth, height |-> v.videoHeight]
    ELSE dom

\* #updateCanvas, the cache after the resize block.
resizedCache(cache, v) ==
  IF needsResize(cache, v)
    THEN [set |-> TRUE, videoWidth |-> v.videoWidth,
          videoHeight |-> v.videoHeight]
    ELSE cache

\* The loop's timer fires on an inactive stream: the callback returns at
\* once and the next animation frame is requested.
FrameSkipped(c) ==
  /\ sched[c] = "timer"
  /\ ~active[c]
  /\ sched' = [sched EXCEPT ![c] = "raf"]
  /\ UNCHANGED <<isStarted, hijacked, disposers, callPc, threw, active>>
  /\ UNCHANGED <<vars, cacheVars, canvasVars>>

\* The loop's timer fires and #updateCanvas returns: the canvas is resized
\* if the cache says so, the frame is drawn, the next animation frame is
\* requested.
FrameDrawn(c) ==
  /\ sched[c] = "timer"
  /\ active[c]
  /\ canvas' = [canvas EXCEPT
                  ![c] = resizedCanvas(updateCanvasCache, canvas[c], video[c])]
  /\ updateCanvasCache' = resizedCache(updateCanvasCache, video[c])
  /\ updated' = c
  /\ sched' = [sched EXCEPT ![c] = "raf"]
  /\ UNCHANGED video
  /\ UNCHANGED <<isStarted, hijacked, disposers, callPc, threw, active>>
  /\ UNCHANGED <<vars, cacheVars>>

\* The loop's timer fires and #updateCanvas throws while drawing, after the
\* resize block: the catch logs and throws again, the timer's function ends
\* there, and requestAnimationFrame(loop) is not reached.
FrameThrows(c) ==
  /\ sched[c] = "timer"
  /\ active[c]
  /\ canvas' = [canvas EXCEPT
                  ![c] = resizedCanvas(updateCanvasCache, canvas[c], video[c])]
  /\ updateCanvasCache' = resizedCache(updateCanvasCache, video[c])
  /\ updated' = IF updated = c THEN 0 ELSE updated
  /\ sched' = [sched EXCEPT ![c] = "none"]
  /\ threw' = [threw EXCEPT ![c] = TRUE]
  /\ UNCHANGED video
  /\ UNCHANGED <<isStarted, hijacked, disposers, callPc, active>>
  /\ UNCHANGED <<vars, cacheVars>>

\* The requested animation frame arrives: loop() sets the next timer.
AnimationFrame(c) ==
  /\ sched[c] = "raf"
  /\ sched' = [sched EXCEPT ![c] = "timer"]
  /\ UNCHANGED <<isStarted, hijacked, disposers, callPc, threw, active>>
  /\ UNCHANGED <<vars, cacheVars, canvasVars>>

StreamerStep(c) ==
  \/ GetUserMediaPlain(c)
  \/ GetUserMedia(c)
  \/ DeviceRejects(c)
  \/ \E v \in VideoSizes : DeviceResolves(c, v)
  \/ PlaySettles(c)
  \/ CanvasFails(c)
  \/ StreamEnds(c)
  \/ \E v \in VideoSizes : VideoResizes(c, v)
  \/ FrameSkipped(c)
  \/ FrameDrawn(c)
  \/ FrameThrows(c)
  \/ AnimationFrame(c)

NextStreamer ==
  \/ Start
  \/ Stop
  \/ \E c \in Streams : StreamerStep(c)

SpecStreamer == Init /\ [][NextStreamer]_allVars

StreamerTypeOK ==
  /\ isStarted \in BOOLEAN
  /\ hijacked = isStarted
  /\ \A i \in 1..Len(disposers) : disposers[i] \in Streams
  /\ \A c \in Streams :
       /\ callPc[c] \in {"idle", "plain", "awaitDevice", "awaitPlay",
                         "returned", "failed"}
       /\ sched[c] \in {"none", "timer", "raf"}
       /\ canvas[c].made = (callPc[c] = "returned")
  /\ updated \in 0..MaxStreams

\* ================================================================ claims
IntHeight == height % FP = 0
Returned == pc = "done" /\ outcome = "result"
\* #fitText has probed: fontSize and lines are a probe and its wrap.
Probed == iters > 0
Font == getFontFor(fontSize)
EndsWithEllipsis(t) == t # <<>> /\ t[Len(t)] = Ellipsis
HasEllipsis(t) == \E i \in 1..Len(t) : t[i] = Ellipsis
\* The wrap of the call's text at font size s, as #wrapText computes it.
WrapAt(s) == wrapText(ctxFont, text, s, width).lines
FitsAt(s) == ~fitOverflow(s, Len(WrapAt(s)), height, maxWrap)
\* The whole font sizes of the closed range [floor(height / maxWrap), height].
SearchRange == {s \in 0..MaxHeight :
                  initMin(height, maxWrap) <= s /\ s * FP <= height}

\* C1: a layout calcLayout returns for maxWrap >= 1 has at most maxWrap lines.
LineCap ==
  Returned /\ maxWrap >= 1 => Len(result.lines) <= maxWrap

\* A call whose accepted wrap overflowed and was cut down to maxWrap lines.
LineCapWitness ==
  Returned /\ maxWrap >= 1 /\ Len(lines) > maxWrap
           /\ Len(result.lines) = maxWrap

\* C2: for a whole height >= 1 and maxWrap >= 1, when some font size of the
\* range fits (at most maxWrap lines, fontSize * lines <= height), the font
\* size returned is the largest one that fits.
LargestFit ==
  Returned /\ IntHeight /\ height >= FP /\ maxWrap >= 1
           /\ (\E s \in SearchRange : FitsAt(s))
    => /\ FitsAt(fontSize)
       /\ \A s \in SearchRange : FitsAt(s) => s <= fontSize

\* C3: a larger maxWrap never gives a smaller font size, text, width and
\* height being the same.
MonotonicFit ==
  Returned /\ maxWrap >= 1
    => \A m2 \in maxWrap..MaxWrapArg :
         LET fit2 == fitText(ctxFont, text, width, height, m2)
         IN fit2.kind = "return" => fit2.fontSize >= fontSize

\* C4: every iteration of the loop of #fitText that does not return strictly
\* shrinks the window [minFontSize, maxFontSize], for every height > 0.
WindowShrinks ==
  [][pc = "fit" /\ pc' = "fit" /\ height > 0 /\ maxWrap >= 1
       => maxFontSize' - minFontSize' * FP < maxFontSize - minFontSize * FP]_vars

\* C5 as claimed: when the accepted wrap has more than maxWrap lines, the last
\* line returned ends with the ellipsis and no other line does, whatever the
\* text.
EllipsisOnlyLast ==
  Returned /\ maxWrap >= 1 /\ Len(lines) > maxWrap
    => /\ EndsWithEllipsis(result.lines[maxWrap].text)
       /\ \A i \in 1..(maxWrap - 1) : ~EndsWithEllipsis(result.lines[i].text)

\* C5 amended: when the accepted wrap has more than maxWrap lines, the last
\* line returned ends with the ellipsis; no other line does when the text
\* itself holds no ellipsis.
EllipsisOnTruncation ==
  Returned /\ maxWrap >= 1 /\ Len(lines) > maxWrap
    => /\ EndsWithEllipsis(result.lines[Len(result.lines)].text)
       /\ ~HasEllipsis(text)
            => \A i \in 1..(Len(result.lines) - 1) :
                 ~EndsWithEllipsis(result.lines[i].text)

\* A truncated layout of two lines or more for a text without an ellipsis.
EllipsisWitness ==
  Returned /\ maxWrap >= 2 /\ Len(lines) > maxWrap /\ ~HasEllipsis(text)
           /\ Len(result.lines) = maxWrap

\* Fewest contiguous pieces of text from position pos on, each piece one
\* character or measuring at most the width at the probed font size.
RECURSIVE MinPieces(_)
MinPieces(pos) ==
  IF pos > Len(text) THEN 0
  ELSE LET ends == {e \in pos..Len(text) :
                      e = pos \/ measureText(Font, SubSeq(text, pos, e)) <= width}
           counts == {1 + MinPieces(e + 1) : e \in ends}
       IN CHOOSE c \in counts : \A d \in counts : c <= d

\* C6: #wrapText returns the fewest lines: as many as the fewest pieces, each
\* one character or fitting the width, that the text can be cut into.
WrapMinimal ==
  Probed => Len(lines) = MinPieces(1)

\* C7: a line of #wrapText with two characters or more measures at most the
\* width; only a line of one character may be wider.
LinesFit ==
  Probed => \A i \in 1..Len(lines) :
              Len(lines[i].text) >= 2 => measureText(Font, lines[i].text) <= width

\* A wrap of several lines, one of them two characters or more that fill the
\* width exactly.
LinesFitWitness ==
  /\ Probed
  /\ Len(lines) >= 2
  /\ \E i \in 1..Len(lines) :
       Len(lines[i].text) >= 2 /\ measureText(Font, lines[i].text) = width

\* C8: when the text wraps into more than maxWrap lines at every font size of
\* the range, exactly maxWrap lines are returned; and a font size above the
\* lower bound floor(height / maxWrap) is returned only with a wrap of at most
\* maxWrap lines and fontSize * lines <= height, so nothing is cut then.
CutOnlyAtLowerBound ==
  Returned /\ maxWrap >= 1
    => /\ (\A s \in SearchRange : Len(WrapAt(s)) > maxWrap)
            => Len(result.lines) = maxWrap
       /\ fontSize > initMin(height, maxWrap)
            => /\ Len(lines) <= maxWrap
               /\ fontSize * Len(lines) * FP <= height
               /\ \A i \in 1..Len(lines) : result.lines[i].text = lines[i].text

\* A font size above the lower bound returned for a text of two lines.
CutOnlyWitness ==
  Returned /\ maxWrap >= 1 /\ fontSize > initMin(height, maxWrap)
           /\ Len(lines) >= 2

\* C9: the layout a call returns is the one the same arguments give from any
\* font an earlier call can have left on the context.
Idempotent ==
  pc = "done"
    => \A f \in CtxFonts :
         calcLayout(f, text, width, height, maxWrap)
           = [outcome |-> outcome, result |-> result]

\* A layout of two lines or more at a font size that is not the context's
\* first font.
IdempotentWitness ==
  Returned /\ Len(result.lines) >= 2 /\ result.font # DefaultFont

\* C10: a call with maxWrap <= 0 or a width or height <= 0 fails with
\* InvalidArgument and returns no layout.
InvalidRejected ==
  pc = "done" /\ (maxWrap <= 0 \/ width <= 0 \/ height <= 0)
    => outcome = "InvalidArgument"


\* C11: for the empty text and maxWrap >= 1, whatever the width and the
\* height >= 0, #wrapText gives no line and calcLayout returns a layout of
\* no line, without an error.
EmptyTextLayout ==
  pc # "idle" /\ text = <<>> /\ maxWrap >= 1
    => /\ Probed => lines = <<>>
       /\ LET r == calcLayout(ctxFont, text, width, height, maxWrap)
          IN r.outcome = "result" /\ r.result.lines = <<>>

\* Sum over the lines of x + line.width / 2, counted in half pixels.
RECURSIVE SumCentres(_)
SumCentres(ls) ==
  IF ls = <<>> THEN 0
  ELSE Head(ls).x + Head(ls).width + SumCentres(Tail(ls))

\* C12: every line returned is centred, x + line.width / 2 = width / 2, so
\* the centres sum to lines.length * width / 2; the cut last line with its
\* ellipsis included.
Centred ==
  Returned
    => /\ \A i \in 1..Len(result.lines) :
            result.lines[i].x + result.lines[i].width = width
       /\ SumCentres(result.lines) = Len(result.lines) * width

\* A cut layout of two lines or more of different widths, narrower than the
\* box.
CentredWitness ==
  /\ Returned /\ Len(lines) > maxWrap /\ Len(result.lines) >= 2
  /\ result.lines[1].width # result.lines[2].width
  /\ \E i \in 1..Len(result.lines) : result.lines[i].x > 0

\* C13: for a whole height >= 1 and maxWrap >= 1, every iteration of the
\* loop of #fitText starts with floor(height / maxWrap) <= minFontSize <=
\* maxFontSize <= height; the loop never ends by its condition (no undefined,
\* no TypeError); the font size returned is in the range and the lines
\* returned are its wrap.
WindowInvariant ==
  IntHeight /\ height >= FP /\ maxWrap >= 1
    => /\ pc = "fit"
            => /\ initMin(height, maxWrap) <= minFontSize
               /\ loopCond(minFontSize, maxFontSize)
               /\ maxFontSize <= height
               /\ iters < MaxIters
       /\ pc = "done" => outcome = "result"
       /\ pc \in {"finish", "done"}
            => /\ fontSize \in SearchRange
               /\ lines = WrapAt(fontSize)

\* The loop about to start its third iteration, the window narrowed twice.
WindowWitness ==
  /\ IntHeight /\ height >= FP /\ maxWrap >= 1
  /\ pc = "fit" /\ iters = 2
  /\ minFontSize > initMin(height, maxWrap) /\ maxFontSize < height

RECURSIVE ConcatTexts(_)
ConcatTexts(ls) ==
  IF ls = <<>> THEN <<>> ELSE Head(ls).text \o ConcatTexts(Tail(ls))

\* C16: the texts of the lines of #wrapText, joined in order, are the text,
\* and no line has an empty text.
WrapPartition ==
  Probed => /\ ConcatTexts(lines) = text
            /\ \A i \in 1..Len(lines) : lines[i].text # <<>>

\* C17: for a whole height >= 1 and maxWrap >= 1, a returned layout is not
\* higher than the box: fontSize * lines.length <= height, that is
\* offsetY >= 0 (the first baseline is at offsetY + 0.88 * fontSize).
BlockFits ==
  Returned /\ IntHeight /\ height >= FP /\ maxWrap >= 1
    => /\ fontSize * Len(result.lines) * FP <= height
       /\ \A i \in 1..Len(result.lines) :
            result.lines[i].y
              >= 2 * FP * fontSize * (100 * (i - 1) + BaselineRatio100)

\* A cut layout of two lines or more that fills the height exactly.
BlockFitsWitness ==
  /\ Returned /\ IntHeight /\ height >= FP /\ maxWrap >= 2
  /\ Len(lines) > maxWrap
  /\ fontSize * Len(result.lines) * FP = height


\* The layout a fresh engine with no cache computes for the arguments.
FreshLayout(a) == computeTextLayout(DefaultFont, a.width, a.height, a.text).result

\* C15: every #calcTextLayout call returns the layout a fresh, uncached
\* computation of its own arguments gives (padding applied, the frame offsets
\* added once), and the cached layout is returned only to a call whose three
\* arguments are those of the call before.
CacheCoherent ==
  ctlOutcome \in {"cached", "computed"}
    => /\ ctlLayout = FreshLayout(ctlArgs)
       /\ ctlOutcome = "cached" => ctlSame
       /\ ~ctlSame => ctlOutcome = "computed"

\* A cached layout with a line in it, moved by a frame offset.
CacheWitness ==
  /\ ctlOutcome = "cached" /\ ctlLayout.lines # <<>>
  /\ ctlArgs.width > paddedWidth(ctlArgs.width, ctlArgs.height)
  /\ compactText(ctlArgs.text) # ctlArgs.text


\* The disposer of the loop of stream c has been pushed and not yet called.
Disposable(c) == \E i \in 1..Len(disposers) : disposers[i] = c

\* C14: when a frame's canvas update throws inside the render loop, only
\* that frame is skipped: as long as the loop has not been stopped, it stays
\* scheduled (a timer or an animation frame is pending) so that the callback
\* runs again for later frames.
LoopSurvivesThrow ==
  \A c \in Streams : threw[c] /\ Disposable(c) => sched[c] \in {"timer", "raf"}

\* C18: while the streamer is stopped, no render loop created by
\* #createCanvasStream is scheduled, whatever the interleaving of start(),
\* stop() and the awaits of getModifiedUserMedia calls in flight.
NoLoopWhileStopped ==
  ~isStarted => \A c \in Streams : sched[c] = "none"

\* C19: after every #updateCanvas call, the canvas of that call has the
\* width and the height of its video, for every interleaving of the frame
\* updates of the canvas streams that share #updateCanvasCache.
CanvasMatchesVideo ==
  updated # 0 =>
    /\ canvas[updated].width = video[updated].videoWidth
    /\ canvas[updated].height = video[updated].videoHeight

====
